---- MODULE Spec2Model ----
(***************************************************************************)
(* Model of the KINAMBA ANPR edge service (server/edge_anpr/               *)
(* anpr_service.py): the plate deduplicator ANPRService._should_send_plate *)
(* and the capture loop ANPRService.start around it; and of the one-shot   *)
(* migration script fix_rls.py.                                            *)
(*                                                                         *)
(* Time.  time.time() returns a float number of seconds.  The model keeps  *)
(* every clock reading as an integer number of ticks, TicksPerUnit ticks   *)
(* to the second, so that 6.1 s is the integer 6 * TicksPerUnit + 1.  The  *)
(* clock is read by the program, never set by it; the model lets it stand  *)
(* still or move forward between two readings.                             *)
(***************************************************************************)
EXTENDS Integers, Sequences, FiniteSets

\* ------------------------------------------------------------------ bounds
TicksPerUnit == 10
MaxTime == 61
MaxCalls == 4
MaxFrames == 20
MaxFailedReads == 2
MaxResults == 3

\* ------------------------------------------------------- program constants
\* Python None, as the value of last_plate (no plate string equals it)
None == "None"
\* Python None, as the value of last_plate_time (no clock reading equals it)
NoTime == -1
\* a process that has not exited has no exit status
NoStatus == -1
\* the literal 5 of `(now - self.last_plate_time) < 5`, in ticks
COOLDOWN == 5 * TicksPerUnit

Plates == {"ABC123", "XYZ999"}
\* the clock readings drawn for a call made in isolation: the whole seconds
\* up to MaxTime and the ticks next to them
Times == {t \in 0..MaxTime : t % TicksPerUnit \in {0, 1, TicksPerUnit - 1}}

VARIABLES
    last_plate,         \* self.last_plate
    last_plate_time,    \* self.last_plate_time
    now,                \* the latest reading of time.time()
    calls,              \* log of the calls of _should_send_plate made so far
    has_openalpr,       \* HAS_OPENALPR, fixed when the module is imported
    pc,                 \* where start() stands
    cap_opened,         \* cap.isOpened() of the capture start() holds
    frame_count,        \* frame_count of start()
    plates,             \* what is left of `plates` in start()'s for loop
    failed_reads,       \* reads that returned ret = False
    first_read_failed,  \* whether the first cap.read() returned ret = False
    releases,           \* calls of cap.release()
    reopens,            \* cv2.VideoCapture calls made inside the loop
    results_seen,       \* entries of results['results'] recognised so far
    accepted,           \* per plate, calls of _should_send_plate that returned True
    posted,             \* per plate, calls of requests.post carrying it
    outcome,            \* how the latest send_to_erm call ended
    recognised,         \* how the latest detect_plates call ended
    open_handles,       \* captures opened and not yet released
    supabase_key,       \* os.environ.get("SUPABASE_KEY") of fix_rls.py
    mig_pc,             \* where the fix_rls.py script stands
    client_created,     \* whether create_client has returned a client
    rpc_calls,          \* calls of supabase.rpc('exec_sql', ...).execute()
    rpc_result,         \* how the latest of them ended
    stdout,             \* what fix_rls.py has printed
    exit_status,        \* exit status of the fix_rls.py process, once it has one
    db                  \* the policies and row-level-security switches of the database

dedup_vars == <<last_plate, last_plate_time, now, calls>>
loop_vars == <<has_openalpr, pc, cap_opened, frame_count, plates, failed_reads,
               first_read_failed, releases, reopens, results_seen, accepted,
               posted, outcome, recognised, open_handles>>
mig_vars == <<supabase_key, mig_pc, client_created, rpc_calls, rpc_result,
              stdout, exit_status, db>>
vars == <<dedup_vars, loop_vars, mig_vars>>

\* ------------------------------------------------------ _should_send_plate
\* Python truthiness of self.last_plate_time: None and 0.0 are both falsy
Truthy(t) == t /= NoTime /\ t /= 0

\* `self.last_plate == plate` dropped: any plate counts as a repeat
SamePlate_any(lp, plate) == TRUE

\* `self.last_plate == plate`
SamePlate(lp, plate) == lp = plate

\* `<= 5` written for `< 5`
WithinCooldown_le(t, lpt) == Truthy(lpt) /\ (t - lpt) <= COOLDOWN

\* the two fields assigned before the comparison instead of after it
should_send_plate_early(plate, t, lp, lpt) ==
    IF plate = plate /\ t /= NoTime /\ t /= 0 /\ (t - t) < COOLDOWN
    THEN [ret |-> FALSE, last_plate |-> plate, last_plate_time |-> t]
    ELSE [ret |-> TRUE, last_plate |-> plate, last_plate_time |-> t]

\* a sliding window: the timestamp refreshed on a rejected call too
should_send_plate_slide(plate, t, lp, lpt) ==
    IF lp = plate /\ lpt /= NoTime /\ lpt /= 0 /\ (t - lpt) < COOLDOWN
    THEN [ret |-> FALSE, last_plate |-> lp, last_plate_time |-> t]
    ELSE [ret |-> TRUE, last_plate |-> plate, last_plate_time |-> t]

\* an accepted repeat of the stored plate keeps the old timestamp
should_send_plate_stale(plate, t, lp, lpt) ==
    IF lp = plate /\ lpt /= NoTime /\ lpt /= 0 /\ (t - lpt) < COOLDOWN
    THEN [ret |-> FALSE, last_plate |-> lp, last_plate_time |-> lpt]
    ELSE [ret |-> TRUE, last_plate |-> plate,
          last_plate_time |-> IF lp = plate THEN lpt ELSE t]

\* last_plate assigned only while it is still None
should_send_plate_firstplate(plate, t, lp, lpt) ==
    IF lp = plate /\ lpt /= NoTime /\ lpt /= 0 /\ (t - lpt) < COOLDOWN
    THEN [ret |-> FALSE, last_plate |-> lp, last_plate_time |-> lpt]
    ELSE [ret |-> TRUE, last_plate |-> IF lp = None THEN plate ELSE lp,
          last_plate_time |-> t]

\* a rejected call clears the stored timestamp
should_send_plate_clear(plate, t, lp, lpt) ==
    IF lp = plate /\ lpt /= NoTime /\ lpt /= 0 /\ (t - lpt) < COOLDOWN
    THEN [ret |-> FALSE, last_plate |-> lp, last_plate_time |-> NoTime]
    ELSE [ret |-> TRUE, last_plate |-> plate, last_plate_time |-> t]

\* `self.last_plate_time and (now - self.last_plate_time) < 5`
WithinCooldown(t, lpt) == Truthy(lpt) /\ (t - lpt) < COOLDOWN

\* The whole method: the value returned and the two fields after the call.
should_send_plate(plate, t, lp, lpt) ==
    IF SamePlate(lp, plate) /\ WithinCooldown(t, lpt)
    THEN [ret |-> FALSE, last_plate |-> lp, last_plate_time |-> lpt]
    ELSE [ret |-> TRUE, last_plate |-> plate, last_plate_time |-> t]

\* ANPRService.__init__
InitService ==
    /\ last_plate = None
    /\ last_plate_time = NoTime

\* One entry of the call log: the arguments, the fields before, the result.
CallEntry(plate, t, r) ==
    [plate |-> plate, time |-> t, ret |-> r.ret,
     pre_plate |-> last_plate, pre_time |-> last_plate_time]

\* One call of _should_send_plate(plate) whose time.time() reads t.
ShouldSendPlate ==
    /\ Len(calls) < MaxCalls
    /\ \E plate \in Plates, t \in Times :
         /\ t >= now
         /\ LET r == should_send_plate(plate, t, last_plate, last_plate_time)
            IN  /\ last_plate' = r.last_plate
                /\ last_plate_time' = r.last_plate_time
                /\ calls' = Append(calls, CallEntry(plate, t, r))
         /\ now' = t
    /\ UNCHANGED <<loop_vars, mig_vars>>

\* the database before fix_rls.py has touched it: no policy, no row-level
\* security
EmptyDb == [policies |-> {}, rls |-> {}]

\* fix_rls.py not run
MigrationNotRun ==
    /\ supabase_key = None
    /\ mig_pc = "not_run"
    /\ client_created = FALSE
    /\ rpc_calls = 0
    /\ rpc_result = "none"
    /\ stdout = << >>
    /\ exit_status = NoStatus
    /\ db = EmptyDb

\* start() not yet called
InitLoop ==
    /\ pc = "start"
    /\ cap_opened = FALSE
    /\ frame_count = 0
    /\ plates = << >>
    /\ failed_reads = 0
    /\ first_read_failed = FALSE
    /\ releases = 0
    /\ reopens = 0
    /\ results_seen = 0
    /\ accepted = [p \in Plates |-> 0]
    /\ posted = [p \in Plates |-> 0]
    /\ outcome = "none"
    /\ recognised = "none"
    /\ open_handles = 0

\* ---------------------------------------------- deduplicator in isolation
\* A constructed service whose _should_send_plate is called directly.
InitDedup ==
    /\ InitService
    /\ InitLoop
    /\ MigrationNotRun
    /\ has_openalpr = TRUE
    /\ now = 0
    /\ calls = << >>

NextDedup == ShouldSendPlate

SpecDedup == InitDedup /\ [][NextDedup]_vars

\* ------------------------------------------------------- the capture loop
\* `frame_count % 10 != 0`: the literal 10 of the throttle
FRAME_STRIDE == 10

\* What alpr.recognize_array hands back for one entry of results['results']:
\* a top candidate's plate text as the engine spells it, an entry with an
\* empty candidate list, or an entry whose access raises.
RawPlates == {"abc123", "XYZ999"}
NoCandidates == "no_candidates"
Malformed == "malformed"

\* str.upper() on the engine's plate text
Upper(raw) == IF raw = "abc123" THEN "ABC123" ELSE raw

\* what the clock may have advanced by between two readings inside the loop
ClockSteps == {0, 1, COOLDOWN}

\* One entry of results['results'] together with what the clock advances by
\* before the entry's _should_send_plate call reads it (an entry that makes
\* no such call reads no clock).
ResultItems ==
    [item : RawPlates, step : ClockSteps]
        \cup [item : {NoCandidates, Malformed}, step : {0}]

\* sequences over S of length 0..n
SeqsUpTo(S, n) == UNION {[1..k -> S] : k \in 0..n}

\* The for loop of _detect_with_openalpr over results['results'], from entry
\* i on: t is the latest clock reading, acc the plates appended so far.
RECURSIVE recognize_results(_, _, _, _, _, _)
recognize_results(results, i, t, lp, lpt, acc) ==
    IF i > Len(results)
    THEN [raised |-> FALSE, accepted |-> acc, time |-> t,
          last_plate |-> lp, last_plate_time |-> lpt]
    ELSE IF results[i].item = Malformed
    THEN [raised |-> TRUE, accepted |-> acc, time |-> t,
          last_plate |-> lp, last_plate_time |-> lpt]
    ELSE IF results[i].item = NoCandidates
    THEN recognize_results(results, i + 1, t, lp, lpt, acc)
    ELSE LET plate == Upper(results[i].item)
             r == should_send_plate(plate, t + results[i].step, lp, lpt)
         IN  recognize_results(results, i + 1, t + results[i].step,
                               r.last_plate, r.last_plate_time,
                               IF r.ret THEN Append(acc, plate) ELSE acc)

\* per plate, how often it occurs in the sequence ps
Count(ps, p) == Cardinality({i \in 1..Len(ps) : ps[i] = p})

\* send_to_erm with `except requests.exceptions.RequestException` alone
Caught_requests_only(what) == what = "network_error"

\* `except Exception` of send_to_erm and of _detect_with_openalpr: the
\* handlers that keep an exception from leaving the method
Caught(what) == TRUE

\* a failed request sent a second time
PostAttempts_retry(how) ==
    IF how = "snapshot_error" THEN 0 ELSE IF how = "ok" THEN 1 ELSE 2

\* requests.post calls one send_to_erm makes, by how the call ends: none when
\* the snapshot step raised before the request was built, one otherwise
PostAttempts(how) == IF how = "snapshot_error" THEN 0 ELSE 1

\* `break` written for `continue`: the loop is left, line 75 runs, start() returns
AfterFailedRead_break == "returned"

\* after a failed read: `continue`, back to cap.read()
AfterFailedRead == "read"

\* `except Exception: return plates`: what was appended before the exception
detected_partial(raised, acc) == acc

\* what _detect_with_openalpr returns: `plates` from line 114, [] from the
\* except clause of line 117
detected(raised, acc) == IF raised THEN << >> ELSE acc

\* the test made before the increment: frames 1, 11, 21, ... go to recognition
Skipped_before(n) == (n - 1) % FRAME_STRIDE /= 0

\* `if frame_count % 10 != 0: continue`, for the incremented frame_count n
Skipped(n) == n % FRAME_STRIDE /= 0

\* cap.release() left out before the capture is replaced
Released_never(n, opened) == n

\* cap.release(): closes the capture if it is open
Released(n, opened) == IF opened THEN n - 1 ELSE n

\* cv2.VideoCapture(url): one more open capture if the source could be opened
Opened(n, opened) == IF opened THEN n + 1 ELSE n

\* how a send_to_erm call can end: HTTP 200, another status, an exception of
\* requests.post, an exception of response.json(), an exception of
\* os.makedirs / cv2.imwrite
SendOutcomes == {"ok", "http_error", "network_error", "json_error", "snapshot_error"}
FailedOutcomes == SendOutcomes \ {"ok"}
\* the outcomes that are an exception raised inside the try block
SendExceptions == {"network_error", "json_error", "snapshot_error"}

\* line 46-52: open the camera; return if it cannot be opened
Start ==
    /\ pc = "start"
    /\ \E opened \in BOOLEAN :
         /\ cap_opened' = opened
         /\ pc' = IF opened THEN "read" ELSE "returned"
         /\ open_handles' = Opened(open_handles, opened)
    /\ frame_count' = 0
    /\ UNCHANGED <<mig_vars, dedup_vars, has_openalpr, plates, failed_reads, first_read_failed,
                   releases, reopens, results_seen, accepted, posted, outcome,
                   recognised>>

\* line 55-61: cap.read() returns ret = False; release, reopen, continue
ReadFailed ==
    /\ pc = "read"
    /\ failed_reads < MaxFailedReads
    /\ failed_reads' = failed_reads + 1
    /\ first_read_failed' = (first_read_failed \/ (frame_count + failed_reads = 0))
    /\ releases' = releases + 1
    /\ reopens' = reopens + 1
    /\ \E opened \in BOOLEAN :
         /\ cap_opened' = opened
         /\ open_handles' = Opened(Released(open_handles, cap_opened), opened)
    /\ pc' = AfterFailedRead
    /\ UNCHANGED <<mig_vars, dedup_vars, has_openalpr, frame_count, plates, results_seen,
                   accepted, posted, outcome, recognised>>

\* line 55-67: cap.read() returns a frame; every 10th one goes to recognition
ReadFrame ==
    /\ pc = "read"
    /\ cap_opened
    /\ frame_count < MaxFrames
    /\ frame_count' = frame_count + 1
    /\ pc' = IF Skipped(frame_count + 1) THEN "read" ELSE "detect"
    /\ UNCHANGED <<mig_vars, dedup_vars, has_openalpr, cap_opened, plates, failed_reads,
                   first_read_failed, releases, reopens, results_seen, accepted,
                   posted, outcome, recognised, open_handles>>

\* line 69-71 with detect_plates: the frame yields the list `plates`
DetectPlates ==
    /\ pc = "detect"
    /\ \E engine \in {"not_loaded", "raises", "ok"},
          results \in SeqsUpTo(ResultItems, MaxResults - results_seen) :
           LET r == IF has_openalpr /\ engine = "ok"
                    THEN recognize_results(results, 1, now,
                                           last_plate, last_plate_time, << >>)
                    ELSE [raised |-> has_openalpr /\ engine = "raises",
                          accepted |-> << >>, time |-> now,
                          last_plate |-> last_plate,
                          last_plate_time |-> last_plate_time]
               found == detected(r.raised, r.accepted)
           IN  /\ r.time <= MaxTime
               /\ (engine /= "ok" => results = << >>)
               /\ results_seen' = results_seen + Len(results)
               /\ last_plate' = r.last_plate
               /\ last_plate_time' = r.last_plate_time
               /\ now' = r.time
               /\ accepted' = [p \in Plates |-> accepted[p] + Count(r.accepted, p)]
               /\ plates' = found
               /\ recognised' = IF ~has_openalpr THEN "cascade"
                                 ELSE IF r.raised THEN "raised"
                                 ELSE engine
               /\ pc' = IF r.raised /\ ~Caught("recognition") THEN "crashed"
                        ELSE IF found /= << >> THEN "send" ELSE "read"
    /\ UNCHANGED <<mig_vars, calls, has_openalpr, cap_opened, frame_count, failed_reads,
                   first_read_failed, releases, reopens, posted, outcome,
                   open_handles>>

\* line 72-73 with send_to_erm: one plate_data of `plates` is submitted
SendToErm ==
    /\ pc = "send"
    /\ \E how \in SendOutcomes :
         /\ outcome' = how
         /\ posted' = [posted EXCEPT ![Head(plates)] = @ + PostAttempts(how)]
         /\ pc' = IF how \in SendExceptions /\ ~Caught(how) THEN "crashed"
                  ELSE IF Tail(plates) /= << >> THEN "send" ELSE "read"
    /\ plates' = Tail(plates)
    /\ UNCHANGED <<mig_vars, dedup_vars, has_openalpr, cap_opened, frame_count, failed_reads,
                   first_read_failed, releases, reopens, results_seen, accepted,
                   recognised, open_handles>>

Init ==
    /\ InitService
    /\ InitLoop
    /\ MigrationNotRun
    /\ has_openalpr \in BOOLEAN
    /\ now = 0
    /\ calls = << >>

Next ==
    \/ Start
    \/ ReadFailed
    \/ ReadFrame
    \/ DetectPlates
    \/ SendToErm

Spec == Init /\ [][Next]_vars

\* --------------------------------------------------------- fix_rls.py
\* what SUPABASE_KEY can be in the environment: unset (None), empty, a key
Keys == {None, "", "anon-key", "service-role-key"}

Tables == {"clients", "vehicles"}

\* The policies the SQL text names, per table: the ones it drops (line 25-43,
\* nine names a table, taken together) and the one it creates (line 50-58).
OldPolicy(t) == <<t, "old">>
NewPolicy(t) == <<t, "authenticated_all">>
Policies == {OldPolicy(t) : t \in Tables} \cup {NewPolicy(t) : t \in Tables}

\* the states the database can be in when the script is run
DbStates == [policies : SUBSET Policies, rls : SUBSET Tables]

\* `if not SUPABASE_KEY` tested as `is None`: an empty key passes
KeyMissing_unset_only(key) == key = None

\* `if not SUPABASE_KEY`: None and the empty string are both falsy
KeyMissing(key) == key = None \/ key = ""

\* CREATE POLICY fails when a policy of that name is already on the table;
\* the statements before it are DROP POLICY IF EXISTS and ALTER TABLE, which
\* do not fail on a table that exists
SqlFails(d) == \E t \in Tables : NewPolicy(t) \in d.policies

\* the database after fix_rls_sql has run to its end
SqlApplied(d) ==
    [policies |-> (d.policies \ {OldPolicy(t) : t \in Tables})
                      \cup {NewPolicy(t) : t \in Tables},
     rls |-> Tables]

\* the exit status of a script that runs off its end
EndOfScriptStatus == 0

\* the except clause without its `sys.exit(1)`: the script runs off its end
ErrorExitStatus_none == EndOfScriptStatus

\* `sys.exit(1)` of the except clause
ErrorExitStatus == 1

\* line 12-17: read SUPABASE_KEY; print and exit 1 without it
CheckKey ==
    /\ mig_pc = "check_key"
    /\ IF KeyMissing(supabase_key)
       THEN /\ stdout' = stdout \o <<"key_not_set", "please_set">>
            /\ exit_status' = 1
            /\ mig_pc' = "exited"
       ELSE /\ mig_pc' = "create_client"
            /\ UNCHANGED <<stdout, exit_status>>
    /\ UNCHANGED <<dedup_vars, loop_vars, supabase_key, client_created, rpc_calls,
                   rpc_result, db>>

\* line 20: create_client returns a client, or raises and nothing catches it
CreateClient ==
    /\ mig_pc = "create_client"
    /\ \E made \in BOOLEAN :
         /\ client_created' = made
         /\ mig_pc' = IF made THEN "try" ELSE "exited"
         /\ exit_status' = IF made THEN exit_status ELSE 1
    /\ UNCHANGED <<dedup_vars, loop_vars, supabase_key, rpc_calls, rpc_result,
                   stdout, db>>

\* line 64-65: the one RPC; it raises when the request fails on its way or
\* the SQL fails in the database, which then keeps its state
ExecSql ==
    /\ mig_pc = "try"
    /\ stdout' = Append(stdout, "applying")
    /\ rpc_calls' = rpc_calls + 1
    /\ \E fault \in {"none", "network", "denied"} :
         IF fault = "none" /\ ~SqlFails(db)
         THEN /\ rpc_result' = "returned"
              /\ db' = SqlApplied(db)
              /\ mig_pc' = "report"
         ELSE /\ rpc_result' = "raised"
              /\ db' = db
              /\ mig_pc' = "except"
    /\ UNCHANGED <<dedup_vars, loop_vars, supabase_key, client_created, exit_status>>

\* line 66-67 and the end of the script: print the success, exit 0
Report ==
    /\ mig_pc = "report"
    /\ stdout' = stdout \o <<"success", "response">>
    /\ exit_status' = EndOfScriptStatus
    /\ mig_pc' = "exited"
    /\ UNCHANGED <<dedup_vars, loop_vars, supabase_key, client_created, rpc_calls,
                   rpc_result, db>>

\* line 68-70: print the exception, sys.exit(1)
HandleError ==
    /\ mig_pc = "except"
    /\ stdout' = Append(stdout, "error")
    /\ exit_status' = ErrorExitStatus
    /\ mig_pc' = "exited"
    /\ UNCHANGED <<dedup_vars, loop_vars, supabase_key, client_created, rpc_calls,
                   rpc_result, db>>

\* the script started, in some environment, against some database
InitMigration ==
    /\ InitService
    /\ InitLoop
    /\ has_openalpr = TRUE
    /\ now = 0
    /\ calls = << >>
    /\ supabase_key \in Keys
    /\ mig_pc = "check_key"
    /\ client_created = FALSE
    /\ rpc_calls = 0
    /\ rpc_result = "none"
    /\ stdout = << >>
    /\ exit_status = NoStatus
    /\ db \in DbStates

NextMigration ==
    \/ CheckKey
    \/ CreateClient
    \/ ExecSql
    \/ Report
    \/ HandleError

\* A script is one sequential process: it takes its next step while it has one.
SpecMigration == InitMigration /\ [][NextMigration]_vars /\ WF_vars(NextMigration)

\* ------------------------------------------------------------------ claims
\* [("ABC123", t=0), ("ABC123", t=2), ("ABC123", t=6), ("XYZ999", t=6.1)]
Scenario ==
    << [plate |-> "ABC123", time |-> 0],
       [plate |-> "ABC123", time |-> 2 * TicksPerUnit],
       [plate |-> "ABC123", time |-> 6 * TicksPerUnit],
       [plate |-> "XYZ999", time |-> 6 * TicksPerUnit + 1] >>

\* the calls logged so far are exactly the observations of obs
Observed(obs) ==
    /\ Len(calls) = Len(obs)
    /\ \A i \in 1..Len(obs) :
         calls[i].plate = obs[i].plate /\ calls[i].time = obs[i].time

Rets == [i \in 1..Len(calls) |-> calls[i].ret]

\* the first two calls on a fresh service were for the same plate, at t1 < t2
TwoCallsSamePlate ==
    /\ Len(calls) >= 2
    /\ calls[1].plate = calls[2].plate
    /\ calls[1].time < calls[2].time

\* C1: on a fresh service, the same plate at t1 (any t1 >= 0, 0 included)
\* and again at t2 > t1 with t2 - t1 < 5 is accepted, then rejected.
C1_AcceptThenReject ==
    (TwoCallsSamePlate /\ calls[2].time - calls[1].time < COOLDOWN)
        => (calls[1].ret /\ ~calls[2].ret)

\* C2: on a fresh service, the same plate at t1 and again at t2 with
\* t2 - t1 >= 5 (exactly 5 included) is accepted both times.
C2_AcceptThenAccept ==
    (TwoCallsSamePlate /\ calls[2].time - calls[1].time >= COOLDOWN)
        => (calls[1].ret /\ calls[2].ret)

\* the second call came exactly 5 s after a first one made at a time > 0
C2_Witness ==
    /\ TwoCallsSamePlate
    /\ calls[1].time > 0
    /\ calls[2].time - calls[1].time = COOLDOWN
    /\ calls[1].ret /\ calls[2].ret

\* C3: on a fresh service P1 then P2 /= P1 are both accepted whatever time
\* lies between them (none included), and every call whose plate differs
\* from the stored last_plate is accepted.
C3_DifferentPlateAccepted ==
    /\ (Len(calls) >= 2 /\ calls[1].plate /= calls[2].plate)
          => (calls[1].ret /\ calls[2].ret)
    /\ \A i \in 1..Len(calls) :
          calls[i].plate /= calls[i].pre_plate => calls[i].ret

\* P1 and at the same clock reading P2, inside what would be P1's cool-down
C3_Witness ==
    /\ Len(calls) >= 2
    /\ calls[1].plate /= calls[2].plate
    /\ calls[1].time > 0
    /\ calls[2].time = calls[1].time
    /\ calls[2].pre_plate = calls[1].plate
    /\ calls[2].ret

\* C4: the first call on a fresh service (last_plate = None,
\* last_plate_time = None) is accepted, whatever the plate and the time.
C4_FirstAccepted ==
    Len(calls) >= 1 => calls[1].ret

\* a first call, made on the constructor's state at a time > 0
C4_Witness ==
    /\ Len(calls) = 1
    /\ calls[1].pre_plate = None /\ calls[1].pre_time = NoTime
    /\ calls[1].time > 0
    /\ calls[1].ret

\* C5: the scenario ABC123 at 0, ABC123 at 2, ABC123 at 6, XYZ999 at 6.1
\* is decided accept, reject, accept, accept.
C5_ScenarioDecisions ==
    Observed(Scenario) => Rets = <<TRUE, FALSE, TRUE, TRUE>>

\* C6: a call that returns reject leaves last_plate and last_plate_time as
\* they were before it.
C6_RejectLeavesState ==
    (Len(calls) >= 1 /\ ~calls[Len(calls)].ret)
        => /\ last_plate = calls[Len(calls)].pre_plate
           /\ last_plate_time = calls[Len(calls)].pre_time

\* the latest call was rejected, at a later clock reading than the stored one
C6_Witness ==
    /\ Len(calls) >= 2
    /\ ~calls[Len(calls)].ret
    /\ calls[Len(calls)].time > calls[Len(calls)].pre_time
    /\ last_plate_time = calls[Len(calls)].pre_time

\* C7: every plate _should_send_plate accepted in the loop is POSTed exactly
\* once: never more POSTs than accepts, and none missing once the plate is
\* no longer waiting in `plates`.
C7_AcceptedPostedOnce ==
    \A p \in Plates :
        /\ posted[p] <= accepted[p]
        /\ pc \in {"read", "send"} => accepted[p] = posted[p] + Count(plates, p)

\* the reads made so far: the first one failed, every later one succeeded
FirstReadFailedOnly == first_read_failed /\ failed_reads = 1

\* C8: a source that was opened, fails its first read and succeeds on every
\* later one is released and reopened exactly once, and start() stays in its
\* loop (it neither returns nor exits).
C8_ReopenedOnce ==
    FirstReadFailedOnly
        => /\ reopens = 1
           /\ releases = 1
           /\ pc \in {"read", "detect", "send"}

\* after the one reconnect the loop read on to a recognised, submitted frame
C8_Witness ==
    /\ FirstReadFailedOnly
    /\ reopens = 1
    /\ frame_count >= FRAME_STRIDE
    /\ \E p \in Plates : posted[p] > 0
    /\ pc = "read"

\* C9: start() never returns or exits on its own, a source that cannot be
\* opened included.
C9_NeverReturns ==
    pc \notin {"returned", "crashed"}

\* C9 as amended: start() leaves only through the return of line 50, taken
\* when the first open fails, before any read; once in the loop it stays.
C9_ReturnsOnlyOnFailedOpen ==
    pc \in {"returned", "crashed"}
        => /\ pc = "returned"
           /\ ~cap_opened
           /\ frame_count = 0 /\ failed_reads = 0 /\ reopens = 0

\* inside the loop after a failed submission, with the source lost twice and
\* the reopened capture not open
C9_Witness ==
    /\ pc = "read"
    /\ failed_reads >= 2
    /\ ~cap_opened
    /\ outcome \in FailedOutcomes
    /\ \E p \in Plates : accepted[p] > posted[p]

\* C10: a send_to_erm call that fails returns normally: at most one POST for
\* its payload and none for another, last_plate and last_plate_time as they
\* were, and the loop at the next plate of `plates` or at the next read.
C10_FailedSendSwallowed ==
    [][(pc = "send" /\ outcome' \in FailedOutcomes)
        => /\ plates' = Tail(plates)
           /\ pc' = IF Tail(plates) /= << >> THEN "send" ELSE "read"
           /\ posted'[Head(plates)] <= posted[Head(plates)] + 1
           /\ \A p \in Plates \ {Head(plates)} : posted'[p] = posted[p]
           /\ last_plate' = last_plate
           /\ last_plate_time' = last_plate_time
           /\ frame_count' = frame_count]_vars

\* a submission failed after its POST and the loop stands at the next plate
C10_Witness ==
    /\ outcome \in {"http_error", "network_error"}
    /\ pc = "send"
    /\ \E p \in Plates : posted[p] > 0

\* a detect_plates call that failed inside the recognizer
RecognitionFailed == recognised \in {"not_loaded", "raised"}

\* C11: when the engine is not loaded or recognition raises, detect_plates
\* returns the empty list: nothing of that frame is submitted, nothing leaves
\* the method, and the loop stands at the next read.
C11_FailureYieldsNoPlates ==
    [][(pc = "detect" /\ RecognitionFailed')
        => /\ plates' = << >>
           /\ pc' = "read"
           /\ posted' = posted
           /\ frame_count' = frame_count]_vars

\* recognition raised after a plate of the frame had been accepted, and the
\* loop went on to the next read with nothing submitted
C11_Witness ==
    /\ recognised = "raised"
    /\ pc = "read"
    /\ plates = << >>
    /\ \E p \in Plates : accepted[p] > 0
    /\ \A p \in Plates : posted[p] = 0

\* C12: with a clock that never goes backwards, last_plate_time never
\* decreases and, once set, is never unset again.
C12_TimestampMonotone ==
    [][/\ last_plate_time' >= last_plate_time
       /\ (last_plate_time /= NoTime => last_plate_time' /= NoTime)]_vars

\* the timestamp was set and then replaced by that of a plate accepted at a
\* later clock reading
C12_Witness ==
    /\ last_plate_time >= COOLDOWN
    /\ accepted["ABC123"] + accepted["XYZ999"] = 2
    /\ results_seen = 3
    /\ recognised = "ok"

\* C16: a successful read advances frame_count by one and goes to recognition
\* exactly when the new count is a multiple of 10; a failed read leaves
\* frame_count alone and goes back to the read with nothing recognised,
\* deduplicated or submitted; recognition and submission only ever stand on
\* a count that is a positive multiple of 10.
C16_EveryTenthFrame ==
    /\ [][/\ (frame_count' /= frame_count)
              => /\ frame_count' = frame_count + 1
                 /\ (pc' = "detect") = (frame_count' % 10 = 0)
                 /\ pc' \in {"read", "detect"}
          /\ (failed_reads' /= failed_reads)
              => /\ frame_count' = frame_count
                 /\ pc' = "read"
                 /\ results_seen' = results_seen
                 /\ last_plate' = last_plate /\ last_plate_time' = last_plate_time
                 /\ accepted' = accepted /\ posted' = posted
          /\ (pc = "start") => frame_count' = 0]_vars
    /\ [](pc \in {"detect", "send"} => (frame_count > 0 /\ frame_count % 10 = 0))

\* the twentieth good frame, reached past a failed read, stands at recognition
C16_Witness ==
    /\ pc = "detect"
    /\ frame_count = 2 * FRAME_STRIDE
    /\ failed_reads >= 1
    /\ results_seen >= 1

\* C17: every failed read releases once and reopens once, so reopens and
\* releases equal the failed reads; never more than one capture is open; and
\* while every read has failed the loop stands at the read, with nothing
\* recognised or submitted.
C17_ReconnectPerFailedRead ==
    /\ reopens = failed_reads
    /\ releases = failed_reads
    /\ open_handles \in {0, 1}
    /\ (frame_count = 0 /\ failed_reads > 0)
          => /\ pc = "read"
             /\ results_seen = 0
             /\ \A p \in Plates : accepted[p] = 0 /\ posted[p] = 0

\* two reads failed in a row on a source that had been open, and the loop
\* reconnected each time
C17_Witness ==
    /\ frame_count = 0
    /\ failed_reads >= 2
    /\ reopens = failed_reads
    /\ open_handles = 1
    /\ pc = "read"

\* C19: a plate accepted at t whose POST failed or was never made is not
\* accepted again by a frame read less than 5 after t (no other plate having
\* been accepted in between).
C19_CommittedBeforeSubmission ==
    [][\A p \in Plates :
         (/\ pc = "detect"
          /\ last_plate = p
          /\ last_plate_time /= NoTime
          /\ posted[p] < accepted[p]
          /\ now' - last_plate_time < COOLDOWN
          /\ \A q \in Plates \ {p} : accepted'[q] = accepted[q])
         => accepted'[p] = accepted[p]]_vars

\* C14: when P1 is accepted at t1 and then P2 /= P1 at t2, the fields are
\* exactly (P2, t2), and P2 seen again at t3 with t3 - t2 < 5 is rejected,
\* however long after t1.
C14_NewPlateResetsBaseline ==
    \A i \in 1..(Len(calls) - 2) :
        (/\ calls[i].ret
         /\ calls[i + 1].plate /= calls[i].plate
         /\ calls[i + 2].plate = calls[i + 1].plate
         /\ calls[i + 2].time - calls[i + 1].time < COOLDOWN)
        => /\ calls[i + 1].ret
           /\ calls[i + 2].pre_plate = calls[i + 1].plate
           /\ calls[i + 2].pre_time = calls[i + 1].time
           /\ ~calls[i + 2].ret

\* C15: after every call of _should_send_plate, accepted or rejected,
\* last_plate_time is the clock reading of that call.
C15_TimestampAlwaysNow ==
    Len(calls) >= 1 => last_plate_time = calls[Len(calls)].time

\* C15 as amended: the fields are written by accepted calls only: after an
\* accepted call they are that call's plate and clock reading, after a
\* rejected call they are what they were before it.
C15_WrittenOnAcceptOnly ==
    Len(calls) >= 1 =>
        LET c == calls[Len(calls)]
        IN  IF c.ret
            THEN last_plate = c.plate /\ last_plate_time = c.time
            ELSE last_plate = c.pre_plate /\ last_plate_time = c.pre_time

\* a repeat of the stored plate accepted after the cool-down, then a repeat
\* rejected at a later clock reading
C15_Witness ==
    /\ Len(calls) >= 3
    /\ calls[Len(calls) - 1].ret
    /\ calls[Len(calls) - 1].plate = calls[Len(calls) - 1].pre_plate
    /\ calls[Len(calls) - 1].pre_time > 0
    /\ ~calls[Len(calls)].ret
    /\ calls[Len(calls)].time > last_plate_time

\* every logged call is for a plate other than the one of the call before it
Alternating ==
    \A i \in 2..Len(calls) : calls[i].plate /= calls[i - 1].plate

\* C20: only the latest accepted plate is remembered: a stream in which no
\* plate directly repeats (A, B, A, ...) is accepted throughout, whatever
\* the elapsed times.
C20_AlternationNeverRejected ==
    Alternating => \A i \in 1..Len(calls) : calls[i].ret

\* A, B, A at one and the same clock reading > 0, all accepted
C20_Witness ==
    /\ Len(calls) >= 3
    /\ Alternating
    /\ calls[1].time > 0
    /\ calls[3].time = calls[1].time
    /\ calls[3].plate = calls[1].plate
    /\ calls[1].ret /\ calls[2].ret /\ calls[3].ret

Printed(msg) == \E i \in 1..Len(stdout) : stdout[i] = msg

\* C13: when the RPC raises, the script makes no second RPC, never prints
\* the success message, and goes through the except clause to an exit with
\* a non-zero status.
C13_RpcFailureIsFatal ==
    rpc_result = "raised"
        => /\ rpc_calls = 1
           /\ ~Printed("success")
           /\ mig_pc \in {"except", "exited"}
           /\ (mig_pc = "exited" => (exit_status /= 0 /\ exit_status /= NoStatus))

\* the RPC raised and the script has exited with status 1
C13_Witness ==
    /\ rpc_result = "raised"
    /\ mig_pc = "exited"
    /\ exit_status = 1
    /\ Printed("error")

\* C18: at most one RPC; with SUPABASE_KEY unset the script exits 1 with no
\* client and no RPC; otherwise it has made exactly one RPC when it exits,
\* with status 0 if the call returned and non-zero if it raised.
C18_OneRpcThenExit ==
    /\ rpc_calls <= 1
    /\ mig_pc = "exited"
          => IF supabase_key = None
             THEN exit_status = 1 /\ ~client_created /\ rpc_calls = 0
             ELSE /\ rpc_calls = 1
                  /\ (rpc_result = "returned" => exit_status = 0)
                  /\ (rpc_result = "raised" => exit_status \notin {0, NoStatus})

\* C18 as amended: at most one RPC, and the script always exits: with status
\* 1, no client and no RPC when SUPABASE_KEY is unset or empty; with a
\* non-zero status and no RPC when create_client raises; otherwise after
\* exactly one RPC, with status 0 if it returned and non-zero if it raised.
C18_OneRpcAtMostThenExit ==
    /\ [](/\ rpc_calls <= 1
          /\ mig_pc = "exited"
                => IF supabase_key \in {None, ""}
                   THEN exit_status = 1 /\ ~client_created /\ rpc_calls = 0
                   ELSE IF ~client_created
                   THEN exit_status = 1 /\ rpc_calls = 0
                   ELSE /\ rpc_calls = 1
                        /\ (rpc_result = "returned" => exit_status = 0)
                        /\ (rpc_result = "raised" => exit_status \notin {0, NoStatus}))
    /\ <>(mig_pc = "exited")

\* a run with a key: one RPC that returned, the policies in place, exit 0
C18_Witness ==
    /\ mig_pc = "exited"
    /\ supabase_key = "service-role-key"
    /\ client_created
    /\ rpc_calls = 1 /\ rpc_result = "returned"
    /\ exit_status = 0
    /\ db = SqlApplied(db)

====
